---- MODULE Spec2Model ----
(***************************************************************************)
(* Model of src/main.py: the accrual / settlement engine behind            *)
(* start_engine, get_metrics, mint_tokens and stop_engine.                 *)
(*                                                                         *)
(* Handlers are plain `def` routes, which FastAPI runs on a thread pool:   *)
(* a handler is a sequence of steps, one step per access to shared state   *)
(* (the user_sessions dict, a session dict, the wall clock, the chain).    *)
(* Session dicts are heap objects: user_sessions maps a key to an object   *)
(* identity and a handler keeps the reference it read at line 121.         *)
(*                                                                         *)
(* Time is in whole seconds.  Amounts are exact integers in units of       *)
(* 1/SECONDS_PER_YEAR token (the float arithmetic of calculate_earnings is *)
(* modelled as exact rational arithmetic).                                 *)
(***************************************************************************)
EXTENDS Integers, Sequences, FiniteSets, TLC

\* ---------------------------------------------------------------- bounds
NumThreads == 2          \* request-handling threads of the pool
MaxClock   == 10         \* last clock reading explored
MaxCalls   == 2          \* handler invocations explored in one behaviour
MaxCallsSeq == 3         \* the same, when requests are served one at a time
MaxCallsOne == 3         \* the same, when every request names one wallet

Threads == 1..NumThreads

\* ------------------------------------------------------- program constants
\* STRATEGIES: apy and weight in hundredths (0.85 -> 85, 0.15 -> 15).
STRATEGIES ==
    [ aave_lending |-> [apy |->  85, weight |-> 15],
      compound     |-> [apy |->  78, weight |-> 12],
      uniswap_v3   |-> [apy |-> 245, weight |-> 18],
      curve_stable |-> [apy |-> 125, weight |-> 10],
      yearn_vaults |-> [apy |-> 198, weight |-> 15],
      convex       |-> [apy |-> 312, weight |-> 10],
      balancer     |-> [apy |-> 167, weight |->  8],
      sushiswap    |-> [apy |-> 289, weight |->  5],
      mev_arb      |-> [apy |-> 425, weight |->  3],
      flashloan    |-> [apy |-> 512, weight |->  2],
      governance   |-> [apy |->  95, weight |->  1],
      staking      |-> [apy |-> 142, weight |->  1] ]

AI_BOOST_TENTHS  == 25           \* AI_BOOST = 2.5
APY_DENOM        == 100000       \* hundredths * hundredths * tenths
SECONDS_PER_YEAR == 365 * 24 * 3600
PRINCIPAL        == 100000       \* principal = 100000.0 in get_metrics
MINT_INTERVAL    == 5            \* "since_mint >= 5"

\* --------------------------------------------------------------- strings
\* A Python str is a sequence of one-character strings.
LowerChar(c) ==
    CASE c = "A" -> "a"
      [] c = "B" -> "b"
      [] c = "C" -> "c"
      [] OTHER   -> c

\* The string as it is, not lower-cased.
LowerOmitted(s) == s

\* str.lower()
Lower(s) == [i \in DOMAIN s |-> LowerChar(s[i])]

EmptyStr == << >>
Addresses == { <<"A", "b">>, <<"a", "b">> }
\* Optional header / optional dict entry: None or a str.
None == [some |-> FALSE, val |-> EmptyStr]
Some(s) == [some |-> TRUE, val |-> s]
OptStrings == {None} \cup {Some(s) : s \in Addresses \cup {EmptyStr}}
\* A test for None only: the empty string passes.
TruthyNotNone(h) == h.some

\* Python truthiness of an optional str: None and "" are falsy.
Truthy(h) == h.some /\ h.val # EmptyStr

Keys == {Lower(s) : s \in Addresses \cup {EmptyStr}}

\* ------------------------------------------------------ calculate_earnings
RECURSIVE SumOver(_, _)
SumOver(f, S) ==
    IF S = {} THEN 0
    ELSE LET k == CHOOSE x \in S : TRUE
         IN  f[k] + SumOver(f, S \ {k})

\* total_apy = sum(apy * weight) * AI_BOOST, in units of 1/APY_DENOM
total_apy ==
    SumOver([k \in DOMAIN STRATEGIES |-> STRATEGIES[k].apy * STRATEGIES[k].weight],
            DOMAIN STRATEGIES) * AI_BOOST_TENTHS

\* principal * rate * seconds with rate = total_apy / SECONDS_PER_YEAR;
\* the result is in units of 1/SECONDS_PER_YEAR token.
calculate_earnings(principal, seconds) ==
    ((principal \div APY_DENOM) * total_apy) * seconds

\* int(x) of the rational n/d: truncation toward zero
int(n, d) == IF n >= 0 THEN n \div d ELSE -((-n) \div d)

\* token_amount = int(amount * 10**18).  The amount is amount/SECONDS_PER_YEAR
\* token; the result is kept in units of 10**13 atomic units so that it fits
\* the 32-bit integers of TLC: 10**5 / SECONDS_PER_YEAR = 25 / 7884.
token_amount(amount) == int(amount * 25, 7884)

\* ------------------------------------------------------------------ state
VARIABLES
    clock,          \* the last reading of datetime.now().timestamp()
    w3,             \* module global w3 is set (line 30)
    admin_account,  \* module global admin_account is set (line 32)
    user_sessions,  \* dict: key -> identity of the session dict
    heap,           \* the session dicts: identity -> [start, earned, last_mint]
    task,           \* per thread: position and locals of the running handler
    calls,          \* handler invocations so far
    ext_calls,      \* transactions handed to send_raw_transaction so far
    mint_nows,      \* per key: the `now` of every call that invoked mint_tokens
    last_read,      \* per key: `now` and totalProfit of the last metrics response
    response,       \* the last response sent: its kind, and how the call's
                    \* mint_tokens ended ("none" when it made no such call)
    clock_steps_back, \* the wall clock is set back during the run
    ledger          \* per session dict: the accrual that line 128 has added
                    \* to it and the amounts sent to the chain for it

vars == << clock, w3, admin_account, user_sessions, heap, task, calls,
           ext_calls, mint_nows, last_read, response, clock_steps_back, ledger >>

RecIds == 1..(Cardinality(Keys) + NumThreads)
NoSession == 0

\* Locals of a handler.  arg is the raw request value, kept until the handler
\* first uses the key made from it; error is the exception that is leaving
\* the handler at pc "raise".
Idle == [ pc |-> "idle", arg |-> None, error |-> "none",
          wallet |-> EmptyStr, session |-> NoSession,
          start |-> 0, now |-> 0, running |-> 0, since_mint |-> 0,
          earnings |-> 0, acc |-> 0, amount |-> 0, outcome |-> "none" ]

NoRead == [now |-> -1, total |-> 0]

\* Session dicts still referenced by the dict or by a running handler.
Live(us, tk) ==
    {us[k] : k \in DOMAIN us} \cup ({tk[t].session : t \in Threads} \ {NoSession})

\* Identity of a freshly allocated dict.
NewId(hp) == CHOOSE i \in RecIds : i \notin DOMAIN hp /\ \A j \in 1..(i-1) : j \in DOMAIN hp

NoLedger == [accrued |-> 0, sent |-> 0]

\* Writes the shared state back; unreferenced session dicts are collected.
CommitLedger(us, tk, hp, lg) ==
    /\ user_sessions' = us
    /\ task' = tk
    /\ heap' = [r \in (DOMAIN hp) \cap Live(us, tk) |-> hp[r]]
    /\ ledger' = [r \in (DOMAIN hp) \cap Live(us, tk) |->
                     IF r \in DOMAIN lg THEN lg[r] ELSE NoLedger]

Commit(us, tk, hp) == CommitLedger(us, tk, hp, ledger)

EmptyDict == [x \in {} |-> 0]
\* dict with one key set / one key deleted
DictSet(d, k, v) == [x \in (DOMAIN d) \cup {k} |-> IF x = k THEN v ELSE d[x]]
DictDel(d, k) == [x \in (DOMAIN d) \ {k} |-> d[x]]

\* The handler of thread t ends with a response of this kind.
Respond(t, kind) == response' = [kind |-> kind, outcome |-> task[t].outcome]

\* An exception leaves the handler: its locals, but for what the response
\* records, are dropped.
Raising(tk, error) == [Idle EXCEPT !.pc = "raise", !.error = error, !.outcome = tk.outcome]

\* The state after the module has been imported.
Boot ==
    /\ clock = 0
    /\ w3 \in BOOLEAN
    /\ admin_account \in BOOLEAN
    /\ admin_account => w3          \* line 31: admin_account is set only under w3
    /\ user_sessions = EmptyDict
    /\ heap = EmptyDict
    /\ task = [t \in Threads |-> Idle]
    /\ calls = 0
    /\ ext_calls = 0
    /\ mint_nows = [k \in Keys |-> << >>]
    /\ last_read = [k \in Keys |-> NoRead]
    /\ response = [kind |-> "none", outcome |-> "none"]
    /\ ledger = EmptyDict

\* The wall clock is not set back while the server runs.
Init == Boot /\ clock_steps_back = FALSE

\* The wall clock may be set back (datetime.now() is not monotonic).
InitSkew == Boot /\ clock_steps_back = TRUE

\* datetime.now().timestamp(): a reading of the wall clock.  The time that
\* has passed since the last reading is none, a second, or the settlement
\* interval less a second or in full; a clock that is set back reads a second
\* less than the last reading.
Elapses == {0, 1, MINT_INTERVAL - 1, MINT_INTERVAL}
Readings ==
    {clock + d : d \in Elapses \cup (IF clock_steps_back THEN {-1} ELSE {})}
        \cap (0..MaxClock)

\* A new session dict: {"start": ..., "earned": 0.0, "last_mint": ...}
NewSession(start, last_mint) ==
    [start |-> start, earned |-> 0, last_mint |-> last_mint]

\* ------------------------------------------------------------ start_engine
\* Lines 94-97: wallet = req.walletAddress.lower(); the first clock reading
\* of the dict literal.
StartBegin(t, addr) ==
    /\ task[t].pc = "idle"
    /\ calls' = calls + 1
    /\ \E reading \in Readings :
          /\ clock' = reading
          /\ Commit(user_sessions,
                    [task EXCEPT ![t] = [Idle EXCEPT !.pc = "start_store",
                                                     !.arg = Some(addr),
                                                     !.wallet = Lower(addr),
                                                     !.start = reading]],
                    heap)
    /\ UNCHANGED << w3, admin_account, clock_steps_back, ext_calls, mint_nows, last_read, response >>

\* Lines 96-105: the second clock reading, then user_sessions[wallet] = {...}.
StartStore(t) ==
    /\ task[t].pc = "start_store"
    /\ \E reading \in Readings :
          /\ clock' = reading
          /\ LET id == NewId(heap)
             IN  Commit(DictSet(user_sessions, task[t].wallet, id),
                        [task EXCEPT ![t] = Idle],
                        DictSet(heap, id, NewSession(task[t].start, reading)))
    /\ last_read' = [last_read EXCEPT ![task[t].wallet] = NoRead]
    /\ Respond(t, "ok")
    /\ UNCHANGED << w3, admin_account, clock_steps_back, calls, ext_calls, mint_nows >>

\* ------------------------------------------------------------- stop_engine
\* Lines 199-202 without the membership test: the del is reached whether or
\* not the key is there.
StopBeginNoTest(t, body) ==
    /\ task[t].pc = "idle"
    /\ calls' = calls + 1
    /\ Commit(user_sessions,
              [task EXCEPT ![t] =
                  [Idle EXCEPT !.pc = "stop_del", !.arg = body,
                               !.wallet = Lower(IF body.some THEN body.val ELSE EmptyStr)]],
              heap)
    /\ UNCHANGED << clock, w3, admin_account, clock_steps_back, ext_calls, mint_nows,
                    last_read, response >>

\* Lines 199-201: wallet = req.get("walletAddress", "").lower(), then the
\* membership test.
StopBegin(t, body) ==
    /\ task[t].pc = "idle"
    /\ calls' = calls + 1
    /\ LET wallet == Lower(IF body.some THEN body.val ELSE EmptyStr)
       IN  IF wallet \in DOMAIN user_sessions
           THEN /\ Commit(user_sessions,
                          [task EXCEPT ![t] = [Idle EXCEPT !.pc = "stop_del",
                                                           !.arg = body,
                                                           !.wallet = wallet]],
                          heap)
                /\ UNCHANGED response
           ELSE /\ Commit(user_sessions, task, heap)
                /\ Respond(t, "ok")
    /\ UNCHANGED << clock, w3, admin_account, clock_steps_back, ext_calls, mint_nows, last_read >>

\* Lines 202-203: del user_sessions[wallet]; KeyError when the key has gone.
StopDel(t) ==
    /\ task[t].pc = "stop_del"
    /\ IF task[t].wallet \in DOMAIN user_sessions
       THEN /\ Commit(DictDel(user_sessions, task[t].wallet),
                      [task EXCEPT ![t] = Idle],
                      heap)
            /\ last_read' = [last_read EXCEPT ![task[t].wallet] = NoRead]
            /\ Respond(t, "ok")
       ELSE /\ Commit(user_sessions, [task EXCEPT ![t] = Raising(@, "error500")], heap)
            /\ UNCHANGED << last_read, response >>
    /\ UNCHANGED << clock, w3, admin_account, clock_steps_back, calls, ext_calls, mint_nows >>

\* ------------------------------------------------------------- get_metrics
\* Lines 108-112: the header check, then wallet = x_wallet_address.lower().
MetricsBegin(t, header) ==
    /\ task[t].pc = "idle"
    /\ calls' = calls + 1
    /\ Commit(user_sessions,
              [task EXCEPT ![t] =
                  IF ~Truthy(header)
                  THEN Raising(Idle, "error400")     \* HTTPException(400, ...)
                  ELSE [Idle EXCEPT !.pc = "check", !.arg = header,
                                    !.wallet = Lower(header.val)]],
              heap)
    /\ UNCHANGED << clock, w3, admin_account, clock_steps_back, ext_calls, mint_nows, last_read, response >>

\* Lines 114-116: the membership test; when the key is absent, the first
\* clock reading of the dict literal.
MetricsCheck(t) ==
    /\ task[t].pc = "check"
    /\ IF task[t].wallet \notin DOMAIN user_sessions
       THEN \E reading \in Readings :
               /\ clock' = reading
               /\ Commit(user_sessions,
                         [task EXCEPT ![t] = [@ EXCEPT !.pc = "create",
                                                       !.arg = None,
                                                       !.start = reading]],
                         heap)
       ELSE /\ clock' = clock
            /\ Commit(user_sessions,
                      [task EXCEPT ![t] = [@ EXCEPT !.pc = "lookup", !.arg = None]],
                      heap)
    /\ UNCHANGED << w3, admin_account, clock_steps_back, calls, ext_calls, mint_nows, last_read, response >>

\* Lines 115-119: the second clock reading, then user_sessions[wallet] = {...}.
MetricsCreate(t) ==
    /\ task[t].pc = "create"
    /\ \E reading \in Readings :
          /\ clock' = reading
          /\ LET id == NewId(heap)
             IN  Commit(DictSet(user_sessions, task[t].wallet, id),
                        [task EXCEPT ![t] = [@ EXCEPT !.pc = "lookup", !.start = 0]],
                        DictSet(heap, id, NewSession(task[t].start, reading)))
    /\ last_read' = [last_read EXCEPT ![task[t].wallet] = NoRead]
    /\ UNCHANGED << w3, admin_account, clock_steps_back, calls, ext_calls, mint_nows, response >>

\* Lines 121-122: session = user_sessions[wallet] (KeyError when the key has
\* gone), then now = datetime.now().timestamp().
MetricsLookup(t) ==
    /\ task[t].pc = "lookup"
    /\ IF task[t].wallet \in DOMAIN user_sessions
       THEN \E reading \in Readings :
               /\ clock' = reading
               /\ Commit(user_sessions,
                         [task EXCEPT ![t] =
                             [@ EXCEPT !.pc = "times",
                                       !.session = user_sessions[task[t].wallet],
                                       !.now = reading]],
                         heap)
       ELSE /\ clock' = clock
            /\ Commit(user_sessions, [task EXCEPT ![t] = Raising(@, "error500")], heap)
    /\ UNCHANGED << w3, admin_account, clock_steps_back, calls, ext_calls, mint_nows, last_read, response >>

\* The dict the name `session` refers to after line 121, looked up again in
\* user_sessions at each use.
SessionRefByKey(t) ==
    IF task[t].wallet \in DOMAIN user_sessions
    THEN user_sessions[task[t].wallet] ELSE task[t].session

\* The dict the local name `session` refers to: the one line 121 has read.
SessionRef(t) == task[t].session

\* Lines 123-127: running, since_mint and the earnings of the whole run time.
MetricsTimes(t) ==
    /\ task[t].pc = "times"
    /\ LET session == heap[SessionRef(t)]
           running == task[t].now - session.start
       IN  Commit(user_sessions,
                  [task EXCEPT ![t] =
                      [@ EXCEPT !.pc = "load",
                                !.running = running,
                                !.since_mint = task[t].now - session.last_mint,
                                !.earnings = calculate_earnings(PRINCIPAL, running)]],
                  heap)
    /\ UNCHANGED << clock, w3, admin_account, clock_steps_back, calls, ext_calls, mint_nows, last_read, response >>

\* Line 128, the read half of session["earned"] += earnings.
MetricsLoad(t) ==
    /\ task[t].pc = "load"
    /\ Commit(user_sessions,
              [task EXCEPT ![t] =
                  [@ EXCEPT !.pc = "store",
                            !.acc = heap[SessionRef(t)].earned + task[t].earnings]],
              heap)
    /\ UNCHANGED << clock, w3, admin_account, clock_steps_back, calls, ext_calls, mint_nows, last_read, response >>

\* The test of line 131 without its throttle.
SettlementDueNoThrottle(since_mint) == w3 /\ admin_account

\* The test of line 131 without its test of the client and the account.
SettlementDueNoCredentials(since_mint) == since_mint >= MINT_INTERVAL

\* The test of line 131 with > for >=.
SettlementDueStrict(since_mint) ==
    since_mint > MINT_INTERVAL /\ w3 /\ admin_account

\* Line 131: if since_mint >= 5 and w3 and admin_account
SettlementDue(since_mint) ==
    since_mint >= MINT_INTERVAL /\ w3 /\ admin_account

\* Line 128, the write half of +=, then the test of line 131.
MetricsStore(t) ==
    /\ task[t].pc = "store"
    /\ CommitLedger(user_sessions,
                    [task EXCEPT ![t] =
                        [@ EXCEPT !.pc = IF SettlementDue(task[t].since_mint)
                                         THEN "mint_call" ELSE "respond",
                                  !.acc = 0]],
                    [heap EXCEPT ![SessionRef(t)].earned = task[t].acc],
                    [ledger EXCEPT ![SessionRef(t)].accrued = @ + task[t].earnings])
    /\ UNCHANGED << clock, w3, admin_account, clock_steps_back, calls, ext_calls, mint_nows, last_read, response >>

\* The call of line 133 with no handler around the chain calls: an exception
\* or a timeout leaves get_metrics.
AfterMintUncaught(tk, outcome) ==
    IF outcome \in {"error", "timeout"}
    THEN Raising([tk EXCEPT !.outcome = outcome], "error500")
    ELSE [tk EXCEPT !.pc = "set_last", !.outcome = outcome]

\* How the call of line 133 ends when mint_tokens has ended with `outcome`.
\* mint_tokens catches every Exception (lines 194-196) and returns None, and
\* get_metrics wraps the call in try/except Exception (lines 132, 136-137):
\* on every outcome the call returns and line 134 is next.
AfterMint(tk, outcome) ==
    [tk EXCEPT !.pc = "set_last", !.outcome = outcome]

\* Line 133 and lines 150-157: session["earned"] is read as the argument,
\* mint_tokens returns at once when minting is disabled or the amount
\* converts to no atomic unit.
MetricsMintCall(t) ==
    /\ task[t].pc = "mint_call"
    /\ LET amount == heap[SessionRef(t)].earned
       IN  Commit(user_sessions,
                  [task EXCEPT ![t] =
                      IF ~w3 \/ ~admin_account
                      THEN AfterMint([@ EXCEPT !.amount = amount], "disabled")
                      ELSE IF token_amount(amount) <= 0
                      THEN AfterMint([@ EXCEPT !.amount = amount], "nothing")
                      ELSE [@ EXCEPT !.pc = "send", !.amount = amount]],
                  heap)
    /\ mint_nows' = [mint_nows EXCEPT ![task[t].wallet] = Append(@, task[t].now)]
    /\ last_read' = [last_read EXCEPT ![task[t].wallet] = NoRead]
    /\ UNCHANGED << clock, w3, admin_account, clock_steps_back, calls, ext_calls, response >>

\* Lines 159-183: the transaction is built, signed and sent, or one of the
\* calls raises.
MetricsSend(t) ==
    /\ task[t].pc = "send"
    /\ \E sent \in BOOLEAN :
          IF sent
          THEN /\ ext_calls' = ext_calls + 1
               /\ CommitLedger(user_sessions, [task EXCEPT ![t].pc = "wait"], heap,
                               [ledger EXCEPT ![SessionRef(t)].sent = @ + task[t].amount])
          ELSE /\ ext_calls' = ext_calls
               /\ Commit(user_sessions, [task EXCEPT ![t] = AfterMint(@, "error")], heap)
    /\ UNCHANGED << clock, w3, admin_account, clock_steps_back, calls, mint_nows, last_read, response >>

\* Lines 185-196: wait_for_transaction_receipt ends with status 1, with
\* another status, or raises after 120 seconds.
MetricsWait(t) ==
    /\ task[t].pc = "wait"
    /\ \E outcome \in {"confirmed", "failed", "timeout"} :
          Commit(user_sessions, [task EXCEPT ![t] = AfterMint(@, outcome)], heap)
    /\ UNCHANGED << clock, w3, admin_account, clock_steps_back, calls, ext_calls, mint_nows, last_read, response >>

\* Line 134: session["last_mint"] = now
MetricsSetLast(t) ==
    /\ task[t].pc = "set_last"
    /\ Commit(user_sessions,
              [task EXCEPT ![t].pc = "zero"],
              [heap EXCEPT ![SessionRef(t)].last_mint = task[t].now])
    /\ UNCHANGED << clock, w3, admin_account, clock_steps_back, calls, ext_calls, mint_nows, last_read, response >>

\* Line 135: session["earned"] = 0
MetricsZero(t) ==
    /\ task[t].pc = "zero"
    /\ Commit(user_sessions,
              [task EXCEPT ![t].pc = "respond"],
              [heap EXCEPT ![SessionRef(t)].earned = 0])
    /\ UNCHANGED << clock, w3, admin_account, clock_steps_back, calls, ext_calls, mint_nows, last_read, response >>

\* Lines 139-148: the response; totalProfit is session["earned"].  The other
\* fields are functions of it, of the locals and of the constants.
MetricsRespond(t) ==
    /\ task[t].pc = "respond"
    /\ last_read' = [last_read EXCEPT ![task[t].wallet] =
                        [now |-> task[t].now, total |-> heap[SessionRef(t)].earned]]
    /\ Commit(user_sessions, [task EXCEPT ![t] = Idle], heap)
    /\ Respond(t, "metrics")
    /\ UNCHANGED << clock, w3, admin_account, clock_steps_back, calls, ext_calls, mint_nows >>

\* ------------------------------------------------------- error responses
\* FastAPI turns the exception that left the handler into an error response:
\* the HTTPException of line 110 into a 400, any other into a 500.
Raise(t) ==
    /\ task[t].pc = "raise"
    /\ Respond(t, task[t].error)
    /\ Commit(user_sessions, [task EXCEPT ![t] = Idle], heap)
    /\ UNCHANGED << clock, w3, admin_account, clock_steps_back, calls, ext_calls, mint_nows, last_read >>

\* ------------------------------------------------------------ the system
\* A step of a handler that is under way.
Step(t) ==
    \/ StartStore(t)
    \/ StopDel(t)
    \/ MetricsCheck(t)
    \/ MetricsCreate(t)
    \/ MetricsLookup(t)
    \/ MetricsTimes(t)
    \/ MetricsLoad(t)
    \/ MetricsStore(t)
    \/ MetricsMintCall(t)
    \/ MetricsSend(t)
    \/ MetricsWait(t)
    \/ MetricsSetLast(t)
    \/ MetricsZero(t)
    \/ MetricsRespond(t)
    \/ Raise(t)

\* A request arrives and the pool hands it to its first free thread.
Request(t) ==
    /\ \A u \in Threads : u < t => task[u].pc # "idle"
    /\ \/ \E addr \in Addresses \cup {EmptyStr} : StartBegin(t, addr)
       \/ \E body \in OptStrings : StopBegin(t, body)
       \/ \E header \in OptStrings : MetricsBegin(t, header)

Next ==
    \/ calls < MaxCalls /\ \E t \in Threads : Request(t)
    \/ \E t \in Threads : Step(t)

\* Requests are served by the thread pool and may overlap.
Spec == Init /\ [][Next]_vars

\* No handler is under way.
AllIdle == \A t \in Threads : task[t].pc = "idle"

NextSeq ==
    \/ AllIdle /\ calls < MaxCallsSeq /\ Request(1)
    \/ Step(1)

\* Requests are served one at a time, by one thread: a request starts when
\* the previous one has been answered.
SpecSeq == Init /\ [][NextSeq]_vars

\* The same, with the handler that is under way always taking its next step:
\* every call into the chain returns or raises, the wait for the receipt
\* after 120 seconds at the latest (line 185).
SpecSeqFair == SpecSeq /\ WF_vars(Step(1))

\* Requests are served one at a time and the wall clock may be set back.
SpecSkew == InitSkew /\ [][NextSeq]_vars

\* A request for the one wallet "ab".
RequestOne(t) ==
    /\ \A u \in Threads : u < t => task[u].pc # "idle"
    /\ \/ StartBegin(t, <<"a", "b">>)
       \/ StopBegin(t, Some(<<"a", "b">>))
       \/ MetricsBegin(t, Some(<<"a", "b">>))

\* Between two readings of the clock no time passes, or the settlement
\* interval in full.
Paced == clock' - clock \in {0, MINT_INTERVAL}

NextOne ==
    \/ calls < MaxCallsOne /\ (\E t \in Threads : RequestOne(t)) /\ Paced
    \/ (\E t \in Threads : Step(t)) /\ Paced

\* The client and the admin account are set.
InitOne == Init /\ w3 /\ admin_account

\* Minting is enabled and the requests, which may overlap, all name one
\* wallet; the clock readings are paced.
SpecOne == InitOne /\ [][NextOne]_vars

\* ================================================================ claims
MintingEnabled == w3 /\ admin_account

\* The thread's handler holds a session dict.
HasSession(t) == task[t].session # NoSession

\* session["earned"] of the dict the thread's handler holds.
Earned(t) == heap[task[t].session].earned

\* The mint has failed: a call raised, the wait timed out, or the receipt
\* reports a failure.
FailedOutcomes == {"error", "timeout", "failed"}

\* C1: if the settlement attempt of a get_metrics call fails, the wallet's
\* unsettled amount when the call returns is not lower than the amount it
\* had just before the attempt.
C1_FailedSettlementKeepsAmount ==
    \A t \in Threads :
        (task[t].pc = "respond" /\ task[t].outcome \in FailedOutcomes)
            => Earned(t) >= task[t].amount

Max(a, b) == IF a >= b THEN a ELSE b

\* C2: the step that reconciles a confirmed mint of amount A lowers the
\* unsettled amount by exactly A (clamped at 0), so accrual added while the
\* mint was in flight is still there afterwards.
C2_ConfirmedSubtractsAmount ==
    [][ \A t \in Threads :
            (task[t].pc = "zero" /\ task[t].outcome = "confirmed" /\ task'[t].pc = "respond")
                => heap'[task[t].session].earned = Max(0, Earned(t) - task[t].amount) ]_vars

\* The thread's handler is inside the external part of mint_tokens.
InMint(t) == task[t].pc \in {"send", "wait"}

\* C3: no two get_metrics calls for the same wallet are inside the mint step
\* at the same time.
C3_MutualExclusion ==
    \A t, u \in Threads :
        (t # u /\ InMint(t) /\ InMint(u)) => task[t].wallet # task[u].wallet

\* C4: with requests served one at a time, any two calls that invoke the
\* mint step for a wallet have clock readings at least MINT_INTERVAL apart,
\* and a call admitted to the mint step reads the clock at least
\* MINT_INTERVAL after the last call that invoked it and after the creation
\* of the session.
C4_Throttle ==
    /\ \A k \in Keys : \A i, j \in DOMAIN mint_nows[k] :
          i < j => mint_nows[k][j] - mint_nows[k][i] >= MINT_INTERVAL
    /\ \A t \in Threads : task[t].pc = "mint_call" =>
          /\ task[t].now - heap[task[t].session].start >= MINT_INTERVAL
          /\ \A i \in DOMAIN mint_nows[task[t].wallet] :
                task[t].now - mint_nows[task[t].wallet][i] >= MINT_INTERVAL

\* Two calls have invoked the mint step for one wallet.
C4_Witness == \E k \in Keys : Len(mint_nows[k]) >= 2

\* C5: with minting disabled, when a get_metrics call answers, the unsettled
\* amount is the accrual of the time from the session's start to the call's
\* clock reading.
C5_NoDoubleCounting ==
    \A t \in Threads :
        (task[t].pc = "respond" /\ ~MintingEnabled)
            => Earned(t) = calculate_earnings(PRINCIPAL,
                                              task[t].now - heap[task[t].session].start)

\* C6: a get_metrics call that reads the same clock value as the previous
\* call for the wallet, with no settlement, start or stop in between, returns
\* the same totalProfit.
C6_IdempotentAtZeroElapsed ==
    [][ \A t \in Threads :
            (task[t].pc = "respond" /\ task'[t].pc = "idle"
                /\ last_read[task[t].wallet].now = task[t].now)
                => last_read'[task[t].wallet].total = last_read[task[t].wallet].total ]_vars

\* session["earned"] of the wallet's session in the dict.
EarnedOf(us, hp, k) == hp[us[k]].earned

\* C7: the unsettled amount of a wallet whose session exists is lowered only
\* by the step that reconciles a confirmed settlement.
C7_LoweredOnlyByConfirmed ==
    [][ \A k \in (DOMAIN user_sessions) \cap (DOMAIN user_sessions') :
            EarnedOf(user_sessions', heap', k) < EarnedOf(user_sessions, heap, k)
                => \E t \in Threads : /\ task[t].pc = "zero"
                                      /\ task'[t].pc = "respond"
                                      /\ task[t].wallet = k
                                      /\ task[t].outcome = "confirmed" ]_vars

\* The steps of a get_metrics call after the test of line 131 has passed.
SettlementPcs == {"mint_call", "send", "wait", "set_last", "zero"}

\* C8: with the client or the admin account absent, no get_metrics call
\* reaches the mint step or the external call, the += of every call adds the
\* accrual of its run time to the session's unsettled amount, and no step of
\* get_metrics changes the session's unsettled amount otherwise or changes
\* its last_mint.
C8_MintingDisabled ==
    [][ ~MintingEnabled =>
          /\ ext_calls' = 0
          /\ \A k \in Keys : mint_nows'[k] = << >>
          /\ \A t \in Threads : task'[t].pc \notin SettlementPcs
          /\ \A t \in Threads :
                (HasSession(t) /\ task'[t] # task[t] /\ task[t].session \in DOMAIN heap')
                    => LET old == heap[task[t].session]
                           new == heap'[task[t].session]
                       IN  /\ new.last_mint = old.last_mint
                           /\ task[t].pc = "load" =>
                                 task'[t].acc = old.earned
                                     + calculate_earnings(PRINCIPAL, task[t].now - old.start)
                           /\ new.earned = IF task[t].pc = "store" THEN task[t].acc
                                                                   ELSE old.earned ]_vars

\* With minting disabled a get_metrics call has found the interval elapsed
\* and answers with accrual in the session.
C8_Witness ==
    /\ ~MintingEnabled
    /\ \E t \in Threads : /\ task[t].pc = "respond"
                          /\ task[t].since_mint >= MINT_INTERVAL
                          /\ Earned(t) > 0

\* C9: a get_metrics call whose mint step has run answers with a metrics
\* response whatever the outcome of the mint step, and no exception leaves a
\* handler that has invoked the mint step.
C9_MintFailureNotPropagated ==
    /\ response.outcome # "none" => response.kind = "metrics"
    /\ \A t \in Threads : task[t].pc = "raise" => task[t].outcome = "none"

\* A call whose mint timed out has answered with metrics.
C9_Witness == response.kind = "metrics" /\ response.outcome = "timeout"

UpperCase == {"A", "B", "C"}
IsLowerCase(s) == \A i \in DOMAIN s : s[i] \notin UpperCase
SameLetter(c, d) == c = d \/ {c, d} \in {{"A", "a"}, {"B", "b"}, {"C", "c"}}
\* The two strings are the same address, compared case-insensitively.
SameAddress(a, b) == Len(a) = Len(b) /\ \A i \in DOMAIN a : SameLetter(a[i], b[i])

\* Every key of the dict is lower-cased, no two keys are the same address,
\* and every handler works on the lower-cased form of the address it was given.
KeysCanonical ==
    /\ \A k \in DOMAIN user_sessions : IsLowerCase(k)
    /\ \A k, l \in DOMAIN user_sessions : SameAddress(k, l) => k = l
    /\ \A t \in Threads :
          /\ IsLowerCase(task[t].wallet)
          /\ task[t].pc \in {"check", "start_store", "stop_del"}
                => SameAddress(task[t].arg.val, task[t].wallet)

\* C10: session keys are canonical, and a get_metrics call whose header is,
\* compared case-insensitively, the address of an existing session goes on to
\* read that session and does not create another.
C10_CanonicalKeys ==
    [][ /\ KeysCanonical'
        /\ \A t \in Threads :
              (task[t].pc = "check" /\ task'[t].pc # "check"
                  /\ \E k \in DOMAIN user_sessions : SameAddress(k, task[t].arg.val))
                  => /\ task'[t].pc = "lookup"
                     /\ user_sessions' = user_sessions ]_vars

\* A get_metrics call with a mixed-case header meets the session stored
\* under the lower-cased key.
C10_Witness ==
    /\ <<"a", "b">> \in DOMAIN user_sessions
    /\ \E t \in Threads : task[t].pc = "check" /\ task[t].arg.val = <<"A", "b">>

\* The request carries no wallet identifier: the header is absent or empty.
Missing(h) == ~h.some \/ h.val = EmptyStr

\* C11: a get_metrics call without a wallet identifier (header absent or
\* empty) raises the 400 error at once and is answered with it, and neither
\* step of the call changes the session dict or any session in it.
C11_MissingWalletRejected ==
    [][ \A t \in Threads :
          /\ \A header \in OptStrings :
                (MetricsBegin(t, header) /\ Missing(header))
                    => /\ task'[t].pc = "raise"
                       /\ task'[t].error = "error400"
                       /\ user_sessions' = user_sessions
                       /\ heap' = heap
          /\ (task[t].pc = "raise" /\ task[t].error = "error400" /\ task'[t] # task[t])
                => /\ task'[t].pc = "idle"
                   /\ response'.kind = "error400"
                   /\ user_sessions' = user_sessions
                   /\ heap' = heap ]_vars

\* A call without a wallet identifier has been answered with the 400 error
\* while a session exists.
C11_Witness == response.kind = "error400" /\ user_sessions # EmptyDict

\* The key stop_engine makes of its request body.
StopKey(body) == Lower(IF body.some THEN body.val ELSE EmptyStr)

\* C12: with requests served one at a time, stop_engine on a wallet without a
\* session answers with success and leaves the session dict and the sessions
\* unchanged; on a wallet with a session it answers with success, the wallet
\* has no session afterwards and the sessions of the other wallets are
\* unchanged.  A second stop_engine then meets the first case.
C12_StopIdempotent ==
    [][ /\ \A body \in OptStrings :
              StopBegin(1, body) =>
                  IF StopKey(body) \in DOMAIN user_sessions
                  THEN /\ task'[1].pc = "stop_del"
                       /\ task'[1].wallet = StopKey(body)
                       /\ user_sessions' = user_sessions
                       /\ heap' = heap
                  ELSE /\ task'[1].pc = "idle"
                       /\ response'.kind = "ok"
                       /\ user_sessions' = user_sessions
                       /\ heap' = heap
        /\ (task[1].pc = "stop_del" /\ task'[1].pc # "stop_del")
              => /\ task'[1].pc = "idle"
                 /\ response'.kind = "ok"
                 /\ DOMAIN user_sessions' = (DOMAIN user_sessions) \ {task[1].wallet}
                 /\ \A k \in DOMAIN user_sessions' :
                       /\ user_sessions'[k] = user_sessions[k]
                       /\ heap'[user_sessions'[k]] = heap[user_sessions[k]] ]_vars

\* stop_engine is deleting the session of one wallet while another wallet
\* has a session.
C12_Witness ==
    /\ task[1].pc = "stop_del"
    /\ task[1].wallet \in DOMAIN user_sessions
    /\ Cardinality(DOMAIN user_sessions) >= 2

\* C13: the accrual of a negative run time (a clock reading earlier than the
\* session's start) is 0, for the principal of get_metrics and for principal
\* 0, so the += of such a call does not lower the unsettled amount.
C13_NoNegativeAccrual ==
    \A t \in Threads :
        (task[t].pc = "store" /\ task[t].running < 0)
            => /\ \A principal \in {0, PRINCIPAL} :
                     calculate_earnings(principal, task[t].running) = 0
               /\ task[t].earnings = 0
               /\ task[t].acc >= Earned(t)

\* C14: with minting disabled (no call settles), the += of a get_metrics
\* call leaves the session's unsettled amount at the amount it had just
\* before the write plus the call's accrual, also when another call for the
\* wallet has written between the read and the write.
C14_NoLostUpdate ==
    [][ \A t \in Threads :
            (~MintingEnabled /\ task[t].pc = "store" /\ task'[t].pc # "store")
                => heap'[task[t].session].earned = Earned(t) + task[t].earnings ]_vars

\* C15: a get_metrics call stores a new session dict only for a wallet that
\* has none at that moment: the first access creates one record and no
\* record of the dict is replaced by another first access.
C15_CreateAtomicWithLookup ==
    [][ \A t \in Threads :
            (task[t].pc = "create" /\ task'[t].pc = "lookup")
                => task[t].wallet \notin DOMAIN user_sessions ]_vars

\* C16: for every session, the sum of the amounts sent to the chain does not
\* exceed the sum of the accruals that line 128 has added to the session.
C16_NeverDoublePaid ==
    \A r \in DOMAIN ledger : ledger[r].sent <= ledger[r].accrued

\* The steps of a get_metrics call that has passed the header check.
MetricsPcs ==
    {"check", "create", "lookup", "times", "load", "store", "respond"}
        \cup SettlementPcs

\* C17: no step of a get_metrics call that has passed the header check ends
\* in an exception, whatever stop_engine does meanwhile.
C17_StopDoesNotFailMetrics ==
    [][ \A t \in Threads :
            task[t].pc \in MetricsPcs => task'[t].pc # "raise" ]_vars

\* The session dict the call holds is no longer the wallet's entry of
\* user_sessions: the entry has been deleted, or stored anew.
Detached(t) ==
    /\ HasSession(t)
    /\ \/ task[t].wallet \notin DOMAIN user_sessions
       \/ user_sessions[task[t].wallet] # task[t].session

\* C18: when the session a get_metrics call is settling has been deleted by
\* stop_engine (or stored anew since), every further step of the call, its
\* reconciliation included, ends without an exception, leaves user_sessions
\* as it is (a wallet without a session still has none) and changes no
\* session dict but the one the call holds; the call answers with metrics.
C18_ReconcileAfterStop ==
    [][ \A t \in Threads :
            (/\ task[t].pc \in SettlementPcs \cup {"respond"}
             /\ task'[t] # task[t]
             /\ Detached(t))
                => /\ task'[t].pc # "raise"
                   /\ user_sessions' = user_sessions
                   /\ \A r \in (DOMAIN heap') \ {task[t].session} : heap'[r] = heap[r]
                   /\ task[t].pc = "respond" => response'.kind = "metrics" ]_vars

\* A call has reconciled a settlement although stop_engine had deleted the
\* wallet's session, and the wallet has no session.
C18_Witness ==
    \E t \in Threads :
        /\ task[t].pc = "respond"
        /\ task[t].outcome \in {"confirmed"} \cup FailedOutcomes
        /\ task[t].wallet \notin DOMAIN user_sessions

\* C20: when the amount handed to mint_tokens converts to no atomic unit or
\* fewer, the mint step makes no external call and the steps that follow it
\* in get_metrics leave the session's unsettled amount as it is.
C20_NothingToSettle ==
    [][ \A t \in Threads :
          /\ (task[t].pc = "mint_call" /\ task'[t] # task[t]
                 /\ token_amount(Earned(t)) <= 0)
                => /\ task'[t].pc \notin {"send", "wait"}
                   /\ ext_calls' = ext_calls
          /\ (task[t].pc \in {"set_last", "zero"} /\ task'[t] # task[t]
                 /\ task[t].outcome = "nothing")
                => /\ ext_calls' = ext_calls
                   /\ heap'[task[t].session].earned = Earned(t) ]_vars

\* C19: with requests served one at a time, a get_metrics call that has
\* entered the settlement steps ends (on every outcome of the mint nothing
\* holds it or later calls back), and with minting enabled a call whose clock
\* reading is at least MINT_INTERVAL after the session's last recorded
\* attempt invokes the mint step.
C19_NotWedged ==
    /\ [][ \A t \in Threads :
              (/\ task[t].pc = "store" /\ task'[t].pc # "store"
               /\ MintingEnabled
               /\ task[t].now - heap[task[t].session].last_mint >= MINT_INTERVAL)
                  => task'[t].pc = "mint_call" ]_vars
    /\ \A t \in Threads :
          (task[t].pc \in SettlementPcs) ~> (task[t].pc = "idle")

\* The first call's settlement has failed and the second call, for the same
\* wallet, is invoking the mint step.
C19_Witness ==
    /\ calls = 2
    /\ response.kind = "metrics"
    /\ response.outcome \in FailedOutcomes
    /\ \E t \in Threads : /\ task[t].pc = "mint_call"
                          /\ Len(mint_nows[task[t].wallet]) >= 1

====
